---- MODULE Spec2Model ----
(***************************************************************************)
(* A model of main.py: the FastAPI service with POST /search               *)
(* (search_vector -> search_permits) and GET /healthz (health_check).      *)
(*                                                                         *)
(* Text that the code inspects character by character (filter values,      *)
(* which are trimmed by str.strip) is a sequence of one-character strings. *)
(* Distances are fixed-point numbers in units of 10^-5, so that rounding   *)
(* to 4 decimal places is rounding to a multiple of 10.                    *)
(***************************************************************************)
EXTENDS Integers, Sequences, FiniteSets, TLC

\* ---------------------------------------------------------------- bounds
\* Longest filter value, in characters.
MaxValLen == 2
\* Largest explicit top_k of a request body.
MaxTopK == 2
\* Number of documents held by the persisted collection.
NumDocs == 6
\* Number of search requests handled concurrently (SpecConc).
MaxRequests == 2

\* ------------------------------------------------------- program constants
\* SearchRequest.top_k: Optional[int] = 5
TopKDefault == 5

Reqs == 1 .. MaxRequests

\* ------------------------------------------------------------ input space
Whitespace == {" ", "\t"}
Alphabet == {" ", "\t", "a"}
Keys == {"city", "type"}

\* A JSON string value of a filter entry, or JSON null.
Str(s) == [isNone |-> FALSE, text |-> s]
NoneValue == [isNone |-> TRUE, text |-> <<>>]
Texts == UNION {[1 .. n -> Alphabet] : n \in 0 .. MaxValLen}
StrValues == {Str(s) : s \in Texts}

Item(k, v) == [key |-> k, value |-> v]

\* The "filters" objects a body can carry, entries in the order received.
FilterItems(values) ==
    {<<>>}
    \cup {<<Item(k, v)>> : k \in Keys, v \in values}
    \cup UNION {{<<Item(k1, v1), Item(k2, v2)>> :
                      k2 \in Keys \ {k1}, v1 \in values, v2 \in values} :
                  k1 \in Keys}

BodyFilters ==
    {[kind |-> "absent", items |-> <<>>], [kind |-> "wrong", items |-> <<>>]}
    \cup {[kind |-> "dict", items |-> it] :
              it \in FilterItems(StrValues \cup {NoneValue})}

BodyQueries ==
    {[kind |-> "absent", text |-> ""], [kind |-> "wrong", text |-> ""],
     [kind |-> "str", text |-> ""], [kind |-> "str", text |-> "roof permit"]}

BodyTopKs ==
    {[kind |-> "absent", n |-> 0], [kind |-> "null", n |-> 0],
     [kind |-> "wrong", n |-> 0]}
    \cup {[kind |-> "int", n |-> n] : n \in (0 - 1) .. MaxTopK}

\* Every JSON body POST /search is exercised with.
Bodies ==
    {[query |-> q, filters |-> f, top_k |-> t] :
        q \in BodyQueries, f \in BodyFilters, t \in BodyTopKs}

\* A few representative bodies for the concurrent specification.
ConcBodies ==
    {[query |-> [kind |-> "str", text |-> "roof permit"],
      filters |-> [kind |-> "dict",
                   items |-> <<Item("city", Str(<<"a">>)),
                               Item("type", Str(<<" ">>))>>],
      top_k |-> [kind |-> "int", n |-> 2]],
     [query |-> [kind |-> "str", text |-> ""],
      filters |-> [kind |-> "absent", items |-> <<>>],
      top_k |-> [kind |-> "absent", n |-> 0]],
     [query |-> [kind |-> "str", text |-> "roof permit"],
      filters |-> [kind |-> "dict",
                   items |-> <<Item("type", Str(<<" ", "a">>))>>],
      top_k |-> [kind |-> "int", n |-> 1]],
     [query |-> [kind |-> "absent", text |-> ""],
      filters |-> [kind |-> "absent", items |-> <<>>],
      top_k |-> [kind |-> "int", n |-> 1]]}

\* ----------------------------------------------------- request validation
\* class SearchRequest(BaseModel): query: str; filters: Optional[Dict[str,
\* str]] = None; top_k: Optional[int] = 5.  No further constraint is
\* declared on any field.
Conforms(b) ==
    /\ b.query.kind = "str"
    /\ b.filters.kind \in {"absent", "dict"}
    /\ \A i \in 1 .. Len(b.filters.items) : ~b.filters.items[i].value.isNone
    /\ b.top_k.kind \in {"absent", "null", "int"}

NoneTopK == [isNone |-> TRUE, n |-> 0]
IntTopK(n) == [isNone |-> FALSE, n |-> n]
NoneFilters == [isNone |-> TRUE, items |-> <<>>]

\* The SearchRequest object built from a conforming body.
SearchRequest(b) ==
    [query |-> b.query.text,
     filters |-> IF b.filters.kind = "absent" THEN NoneFilters
                 ELSE [isNone |-> FALSE, items |-> b.filters.items],
     top_k |-> CASE b.top_k.kind = "absent" -> IntTopK(TopKDefault)
                 [] b.top_k.kind = "null" -> NoneTopK
                 [] OTHER -> IntTopK(b.top_k.n)]

NoRequest == [query |-> "", filters |-> NoneFilters, top_k |-> NoneTopK]
NoBody ==
    [query |-> [kind |-> "absent", text |-> ""],
     filters |-> [kind |-> "absent", items |-> <<>>],
     top_k |-> [kind |-> "absent", n |-> 0]]

\* ------------------------------------------------------------ str.strip()
RECURSIVE LStrip(_)
LStrip(s) ==
    IF s # <<>> /\ Head(s) \in Whitespace THEN LStrip(Tail(s)) ELSE s

RECURSIVE RStrip(_)
RStrip(s) ==
    IF s # <<>> /\ s[Len(s)] \in Whitespace
    THEN RStrip(SubSeq(s, 1, Len(s) - 1))
    ELSE s

strip(s) == RStrip(LStrip(s))

\* --------------------------------------------------- the `where` clause
NoWhere == [op |-> "None", conds |-> <<>>]
And(conds) == [op |-> "$and", conds |-> conds]

\* `if value is not None and str(value).strip() != ""`
KeepsEntry(value) == ~value.isNone /\ strip(value.text) # <<>>

\* Faulty variant: the condition carries the trimmed value.
condition_stripped(item) == <<item.key, Str(strip(item.value.text))>>

\* The condition appended for one kept entry: {key: value}.
condition(item) == <<item.key, item.value>>

RECURSIVE and_conditions(_)
and_conditions(items) ==
    IF items = <<>> THEN <<>>
    ELSE (IF KeepsEntry(Head(items).value)
          THEN <<condition(Head(items))>> ELSE <<>>)
         \o and_conditions(Tail(items))

\* Faulty variant: a conjunction is built whenever a filter mapping was given.
where_clause_empty_and(filters) ==
    IF filters.isNone THEN NoWhere ELSE And(and_conditions(filters.items))

\* `if filters:` is false for None and for the empty dict.
where_clause(filters) ==
    IF filters.isNone \/ filters.items = <<>> THEN NoWhere
    ELSE IF and_conditions(filters.items) # <<>>
         THEN And(and_conditions(filters.items))
         ELSE NoWhere

\* ------------------------------------------------------ the vector index
\* The persisted collection "permits_vector_data": NumDocs documents, each
\* with a metadata value for every key.
Docs == 1 .. NumDocs

Document(d) == <<"permit", d>>

Metadata(d) ==
    [k \in Keys |->
        IF k = "city"
        THEN (IF d % 2 = 1 THEN Str(<<"a">>) ELSE Str(<<"a", "a">>))
        ELSE (IF d % 3 = 0 THEN Str(<<" ", "a">>) ELSE Str(<<"a">>))]

\* The embedding the provider returns for a text (an opaque vector).
Embedding(text) == <<"vec", text>>
NoEmbedding == <<"vec", "">>

\* Rank of document d among the neighbours of an embedding, nearest first:
\* the two query texts see the collection in opposite orders.
Rank(e, d) == IF e[2] = "" THEN NumDocs + 1 - d ELSE d

\* Cosine distance of the neighbour of rank k, in units of 10^-5.
Distance(k) == 3141 * k + 4

DocAtRank(e, k) == CHOOSE d \in Docs : Rank(e, d) = k

Matches(d, where) ==
    \A i \in 1 .. Len(where.conds) :
        Metadata(d)[where.conds[i][1]] = where.conds[i][2]

\* Ranks of the documents the predicate admits, nearest first.
RECURSIVE Neighbours(_, _, _, _)
Neighbours(coll, e, where, k) ==
    IF k > NumDocs THEN <<>>
    ELSE (IF DocAtRank(e, k) \in coll /\ Matches(DocAtRank(e, k), where)
          THEN <<k>> ELSE <<>>)
         \o Neighbours(coll, e, where, k + 1)

Take(s, n) == SubSeq(s, 1, IF n < Len(s) THEN n ELSE Len(s))

\* The index refuses a limit that is not a positive integer.
ValidNResults(n_results) == ~n_results.isNone /\ n_results.n >= 1

\* collection.query(query_embeddings=[e], n_results=n, where=w,
\* include=["documents", "metadatas", "distances"]): one inner list per
\* query embedding.
QueryResult(coll, e, n_results, where) ==
    LET ranks == Take(Neighbours(coll, e, where, 1), n_results.n) IN
    [documents |-> <<[i \in 1 .. Len(ranks) |-> Document(DocAtRank(e, ranks[i]))]>>,
     metadatas |-> <<[i \in 1 .. Len(ranks) |-> Metadata(DocAtRank(e, ranks[i]))]>>,
     distances |-> <<[i \in 1 .. Len(ranks) |-> Distance(ranks[i])]>>]

NoResults == [documents |-> <<>>, metadatas |-> <<>>, distances |-> <<>>]

\* A distance that is not a number (None): cosine distances are >= 0.
NoneDistance == 0 - 1

\* A malformed answer of the index: the last distance is None.
Malformed(res) ==
    LET ds == res.distances[1] IN
    IF ds = <<>> THEN [res EXCEPT !.distances = <<>>]
    ELSE [res EXCEPT !.distances = <<[ds EXCEPT ![Len(ds)] = NoneDistance]>>]

\* ------------------------------------------------------- result shaping
\* round(dist, 4): to the nearest multiple of 10 units, ties to even.
round4(dist) ==
    LET q == dist \div 10
        rem == dist % 10
    IN  IF rem < 5 THEN 10 * q
        ELSE IF rem > 5 THEN 10 * (q + 1)
        ELSE IF q % 2 = 0 THEN 10 * q ELSE 10 * (q + 1)

Min(a, b) == IF a < b THEN a ELSE b

\* zip(documents[0], metadatas[0], distances[0]) stops at the shortest.
ZipLen(res) ==
    Min(Len(res.documents[1]), Min(Len(res.metadatas[1]), Len(res.distances[1])))

\* The inner lists can be subscripted and every distance is a number.
Shapeable(res) ==
    /\ res.documents # <<>> /\ res.metadatas # <<>> /\ res.distances # <<>>
    /\ \A i \in 1 .. ZipLen(res) : res.distances[1][i] # NoneDistance

SearchResultItem(res, i) ==
    [document |-> res.documents[1][i],
     metadata |-> res.metadatas[1][i],
     similarity_score |-> round4(res.distances[1][i])]

\* Faulty variant: the items are re-sorted, farthest first.
format_output_resorted(res, n) ==
    [i \in 1 .. n |-> SearchResultItem(res, n + 1 - i)]

\* The output list after the loop has appended n items.
format_output(res, n) == [i \in 1 .. n |-> SearchResultItem(res, i)]

\* Items appended before the loop meets a distance that is not a number.
ShapedBeforeError(res) ==
    IF res.documents = <<>> \/ res.metadatas = <<>> \/ res.distances = <<>>
    THEN 0
    ELSE Cardinality({i \in 1 .. ZipLen(res) :
            \A j \in 1 .. i : res.distances[1][j] # NoneDistance})

\* ------------------------------------------------------------- responses
NoResponse == [status |-> 0, keys |-> {}, detail |-> "", results |-> <<>>]

\* `return {"results": results}`
SuccessResponse(out) ==
    [status |-> 200, keys |-> {"results"}, detail |-> "", results |-> out]

\* Faulty variant: the handler answers with what had been shaped so far.
HTTPException_partial(e, out) ==
    [status |-> 500, keys |-> {"detail", "results"}, detail |-> e,
     results |-> out]

\* `raise HTTPException(status_code=500, detail=str(e))`; `out` is the
\* output list as far as it was built, which the handler does not use.
HTTPException(e, out) ==
    [status |-> 500, keys |-> {"detail"}, detail |-> e, results |-> <<>>]

\* The HTTP layer's answer to a body that does not validate.
RequestValidationError ==
    [status |-> 422, keys |-> {"detail"}, detail |-> "validation error",
     results |-> <<>>]

\* Messages of the errors the collaborators raise.
EmbeddingErrors == {"Connection error."}
IndexErrors == {"Error executing plan: Internal error"}
NResultsError == "Number of requested results cannot be negative, or zero."
ShapingError == "type NoneType doesn't define __round__ method"
LogErrors == {"log entry cannot be produced"}
NoError == ""

\* ------------------------------------------------------------ log sink
\* Faulty variant: the file is opened for writing, so a record replaces the log.
emit_truncating(lg, entry) == <<entry>>

\* logging.basicConfig(filename='query_logs.log', ...): the file handler
\* opens the file for appending and writes one record at its end.
emit(lg, entry) == Append(lg, entry)

\* ------------------------------------------------------------------ state
VARIABLES
    pc,               \* where each request is: idle, embed, query, format, log, done
    body,             \* the JSON body each request arrived with
    request,          \* the validated SearchRequest
    query_embedding,  \* search_permits' local query_embedding
    results,          \* search_permits' local results (the raw index answer)
    output,           \* search_permits' local output
    response,         \* the HTTP response sent for each request
    raised,           \* the message of the exception raised in search_permits
    sink,             \* what became of the request's log record
    embedCalls,       \* texts each request passed to the embedding client
    indexCalls,       \* calls each request made to collection.query
    log,              \* the lines of query_logs.log, oldest first
    collection,       \* documents held by the vector index
    health            \* the last answer of GET /healthz

vars == <<pc, body, request, query_embedding, results, output, response,
          raised, sink, embedCalls, indexCalls, log, collection, health>>

NoHealth == [status |-> 0, ok |-> FALSE]

Init ==
    /\ pc = [r \in Reqs |-> "idle"]
    /\ body = [r \in Reqs |-> NoBody]
    /\ request = [r \in Reqs |-> NoRequest]
    /\ query_embedding = [r \in Reqs |-> NoEmbedding]
    /\ results = [r \in Reqs |-> NoResults]
    /\ output = [r \in Reqs |-> <<>>]
    /\ response = [r \in Reqs |-> NoResponse]
    /\ raised = [r \in Reqs |-> NoError]
    /\ sink = [r \in Reqs |-> "unused"]
    /\ embedCalls = [r \in Reqs |-> <<>>]
    /\ indexCalls = [r \in Reqs |-> <<>>]
    /\ log = <<>>
    /\ collection = Docs
    /\ health = NoHealth

\* `except Exception as e: raise HTTPException(...)`: the request ends with
\* the error response.
Raise(r, e, out) ==
    /\ pc' = [pc EXCEPT ![r] = "done"]
    /\ raised' = [raised EXCEPT ![r] = e]
    /\ response' = [response EXCEPT ![r] = HTTPException(e, out)]

\* POST /search with one of the given bodies: the body is validated against
\* SearchRequest; a conforming one enters search_permits.
search_vector(r, bodies) ==
    /\ pc[r] = "idle"
    /\ \E b \in bodies :
          /\ body' = [body EXCEPT ![r] = b]
          /\ IF Conforms(b)
             THEN /\ request' = [request EXCEPT ![r] = SearchRequest(b)]
                  /\ pc' = [pc EXCEPT ![r] = "embed"]
                  /\ UNCHANGED response
             ELSE /\ response' = [response EXCEPT ![r] = RequestValidationError]
                  /\ pc' = [pc EXCEPT ![r] = "done"]
                  /\ UNCHANGED request
    /\ UNCHANGED <<query_embedding, results, output, raised, sink, embedCalls,
                   indexCalls, log, collection, health>>

\* Faulty variant: a failed embedding call is tried again.
get_embedding_retrying(r) ==
    /\ pc[r] = "embed"
    /\ embedCalls' = [embedCalls EXCEPT ![r] = Append(@, request[r].query)]
    /\ \/ /\ query_embedding' =
                [query_embedding EXCEPT ![r] = Embedding(request[r].query)]
          /\ pc' = [pc EXCEPT ![r] = "query"]
          /\ UNCHANGED raised
       \/ /\ \E e \in EmbeddingErrors : raised' = [raised EXCEPT ![r] = e]
          /\ UNCHANGED <<pc, query_embedding>>
    /\ UNCHANGED <<body, request, results, output, response, sink,
                   indexCalls, log, collection, health>>

\* query_embedding = get_embedding(query)
get_embedding(r) ==
    /\ pc[r] = "embed"
    /\ embedCalls' = [embedCalls EXCEPT ![r] = Append(@, request[r].query)]
    /\ \/ /\ query_embedding' =
                [query_embedding EXCEPT ![r] = Embedding(request[r].query)]
          /\ pc' = [pc EXCEPT ![r] = "query"]
          /\ UNCHANGED <<response, raised>>
       \/ /\ \E e \in EmbeddingErrors : Raise(r, e, output[r])
          /\ UNCHANGED query_embedding
    /\ UNCHANGED <<body, request, results, output, sink, indexCalls, log,
                   collection, health>>

\* Faulty variant: results is a module-level name shared by all requests.
collection_query_shared(r) ==
    LET call == [query_embeddings |-> <<query_embedding[r]>>,
                 n_results |-> request[r].top_k,
                 where |-> where_clause(request[r].filters)]
        answer == QueryResult(collection, query_embedding[r],
                              call.n_results, call.where)
    IN  /\ pc[r] = "query"
        /\ indexCalls' = [indexCalls EXCEPT ![r] = Append(@, call)]
        /\ IF ~ValidNResults(call.n_results)
           THEN Raise(r, NResultsError, output[r]) /\ UNCHANGED results
           ELSE \/ /\ results' = [x \in Reqs |-> answer]
                   /\ pc' = [pc EXCEPT ![r] = "format"]
                   /\ UNCHANGED <<response, raised>>
                \/ /\ results' = [x \in Reqs |-> Malformed(answer)]
                   /\ pc' = [pc EXCEPT ![r] = "format"]
                   /\ UNCHANGED <<response, raised>>
                \/ /\ \E e \in IndexErrors : Raise(r, e, output[r])
                   /\ UNCHANGED results
        /\ UNCHANGED <<body, request, query_embedding, output, sink,
                       embedCalls, log, collection, health>>

\* The where clause is built and collection.query is called.
collection_query(r) ==
    LET call == [query_embeddings |-> <<query_embedding[r]>>,
                 n_results |-> request[r].top_k,
                 where |-> where_clause(request[r].filters)]
        answer == QueryResult(collection, query_embedding[r],
                              call.n_results, call.where)
    IN  /\ pc[r] = "query"
        /\ indexCalls' = [indexCalls EXCEPT ![r] = Append(@, call)]
        /\ IF ~ValidNResults(call.n_results)
           THEN Raise(r, NResultsError, output[r]) /\ UNCHANGED results
           ELSE \/ /\ results' = [results EXCEPT ![r] = answer]
                   /\ pc' = [pc EXCEPT ![r] = "format"]
                   /\ UNCHANGED <<response, raised>>
                \/ /\ results' = [results EXCEPT ![r] = Malformed(answer)]
                   /\ pc' = [pc EXCEPT ![r] = "format"]
                   /\ UNCHANGED <<response, raised>>
                \/ /\ \E e \in IndexErrors : Raise(r, e, output[r])
                   /\ UNCHANGED results
        /\ UNCHANGED <<body, request, query_embedding, output, sink,
                       embedCalls, log, collection, health>>

\* The loop that builds output from the zipped answer.
shape_results(r) ==
    /\ pc[r] = "format"
    /\ IF Shapeable(results[r])
       THEN /\ output' = [output EXCEPT
                  ![r] = format_output(results[r], ZipLen(results[r]))]
            /\ pc' = [pc EXCEPT ![r] = "log"]
            /\ UNCHANGED <<response, raised>>
       ELSE LET partial == format_output(results[r],
                                         ShapedBeforeError(results[r]))
            IN  /\ output' = [output EXCEPT ![r] = partial]
                /\ Raise(r, ShapingError, partial)
    /\ UNCHANGED <<body, request, query_embedding, results, sink, embedCalls,
                   indexCalls, log, collection, health>>

\* log_entry = {"query": query, "filters": filters, "top_results": results};
\* `by` names the request that wrote the line.
log_entry(r) ==
    [query |-> request[r].query, filters |-> request[r].filters,
     top_results |-> results[r], by |-> r]

\* logging.info(f"Search Query Log: {log_entry}"), then `return output` and
\* search_vector's `return {"results": results}`.  The record is written,
\* or the handler fails and the logging module swallows it, or producing
\* the line raises inside the try block.
logging_info(r) ==
    /\ pc[r] = "log"
    /\ \/ /\ log' = emit(log, log_entry(r))
          /\ sink' = [sink EXCEPT ![r] = "written"]
          /\ pc' = [pc EXCEPT ![r] = "done"]
          /\ response' = [response EXCEPT ![r] = SuccessResponse(output[r])]
          /\ UNCHANGED raised
       \/ /\ sink' = [sink EXCEPT ![r] = "dropped"]
          /\ pc' = [pc EXCEPT ![r] = "done"]
          /\ response' = [response EXCEPT ![r] = SuccessResponse(output[r])]
          /\ UNCHANGED <<log, raised>>
       \/ /\ \E e \in LogErrors : Raise(r, e, output[r])
          /\ sink' = [sink EXCEPT ![r] = "raised"]
          /\ UNCHANGED log
    /\ UNCHANGED <<body, request, query_embedding, results, output,
                   embedCalls, indexCalls, collection, health>>

\* Faulty variant: the probe reports the failures of the searches.
health_check_deep ==
    IF \E r \in Reqs : response[r].status = 500
    THEN [status |-> 503, ok |-> FALSE]
    ELSE [status |-> 200, ok |-> TRUE]

\* `return {"ok": True}`
health_check == [status |-> 200, ok |-> TRUE]

\* GET /healthz
healthz ==
    /\ health' = health_check
    /\ UNCHANGED <<pc, body, request, query_embedding, results, output,
                   response, raised, sink, embedCalls, indexCalls, log,
                   collection>>

\* One search request in every detail of its body, and the health probe.
Next ==
    \/ search_vector(1, Bodies)
    \/ get_embedding(1)
    \/ collection_query(1)
    \/ shape_results(1)
    \/ logging_info(1)
    \/ healthz

Spec == Init /\ [][Next]_vars

\* Concurrently handled search requests.
NextConc ==
    \E r \in Reqs :
        \/ search_vector(r, ConcBodies)
        \/ get_embedding(r)
        \/ collection_query(r)
        \/ shape_results(r)
        \/ logging_info(r)

SpecConc == Init /\ [][NextConc]_vars

\* ================================================================ claims

\* A value that is present and has a character that is not whitespace.
NonBlank(value) ==
    ~value.isNone /\ \E i \in 1 .. Len(value.text) : value.text[i] \notin Whitespace

KeptPositions(items) == {i \in 1 .. Len(items) : NonBlank(items[i].value)}

\* C1: when a filter mapping has at least one entry whose value is non-empty
\* after trimming, the predicate given to the index is an $and holding, for
\* each such entry and in the mapping's order, exactly one condition
\* {key: value} with the value unmodified, and no other condition.
C1_ConjunctionOfNonEmptyEntries ==
    \A r \in Reqs : \A c \in 1 .. Len(indexCalls[r]) :
        LET items == request[r].filters.items
            kept == KeptPositions(items)
            w == indexCalls[r][c].where
        IN  kept # {} =>
                /\ w.op = "$and"
                /\ Len(w.conds) = Cardinality(kept)
                /\ \A i \in kept :
                      w.conds[Cardinality({j \in kept : j <= i})]
                          = <<items[i].key, items[i].value>>

\* A whitespace-only entry followed by a kept entry with a leading blank.
C1_Witness ==
    \E r \in Reqs :
        LET items == request[r].filters.items IN
        /\ Len(indexCalls[r]) = 1
        /\ Len(items) = 2
        /\ items[1].value = Str(<<" ">>)
        /\ items[2].value = Str(<<" ", "a">>)
        /\ indexCalls[r][1].where = And(<<<<items[2].key, items[2].value>>>>)

\* C2: when the filter mapping is absent, empty or has only empty or
\* whitespace-only values, the index is queried with no predicate at all,
\* never with an empty conjunction, and the search proceeds to the index
\* query instead of ending in an error.
C2_NoPredicateWhenNothingKept ==
    \A r \in Reqs :
        (Conforms(body[r]) /\ KeptPositions(request[r].filters.items) = {}) =>
            /\ \A c \in 1 .. Len(indexCalls[r]) :
                  indexCalls[r][c].where = NoWhere
            /\ response[r].status # 422
            /\ (pc[r] \in {"format", "log"}
                \/ (pc[r] = "done" /\ raised[r] \notin EmbeddingErrors))
                  => Len(indexCalls[r]) = 1

\* A mapping with a whitespace-only and an empty value, answered successfully.
C2_Witness ==
    \E r \in Reqs :
        /\ response[r].status = 200
        /\ Len(request[r].filters.items) = 2
        /\ request[r].filters.items[1].value = Str(<<"\t", " ">>)
        /\ request[r].filters.items[2].value = Str(<<>>)
        /\ indexCalls[r][1].where = NoWhere

Abs(x) == IF x < 0 THEN 0 - x ELSE x

\* C3: a successful POST /search returns at most top_k items (at most the
\* default when top_k is omitted), as many as the index returned neighbours,
\* in the index's order, the i-th item carrying the i-th neighbour's
\* document, metadata and distance (to 4 decimal places).
C3_ResultsFollowIndexAnswer ==
    \A r \in Reqs :
        response[r].status = 200 =>
            LET items == response[r].results
                res == results[r]
                limit == IF body[r].top_k.kind = "absent" THEN TopKDefault
                         ELSE body[r].top_k.n
            IN  /\ Len(items) <= limit
                /\ Len(items) = Len(res.documents[1])
                /\ Len(items) = Len(res.distances[1])
                /\ \A i \in 1 .. Len(items) :
                      /\ items[i].document = res.documents[1][i]
                      /\ items[i].metadata = res.metadatas[1][i]
                      /\ items[i].similarity_score % 10 = 0
                      /\ Abs(items[i].similarity_score - res.distances[1][i]) <= 5

\* top_k omitted, the index returned the default number of neighbours.
C3_Witness ==
    \E r \in Reqs :
        /\ response[r].status = 200
        /\ body[r].top_k.kind = "absent"
        /\ Len(response[r].results) = TopKDefault
        /\ response[r].results[1].document # response[r].results[2].document
        /\ response[r].results[1].similarity_score # results[r].distances[1][1]

PreLogErrors == EmbeddingErrors \cup IndexErrors \cup {NResultsError, ShapingError}

\* C4: when the embedding call, the index query or the result shaping
\* raises, the request ends with HTTP 500 whose detail is the error's
\* message and which carries no results, whichever collaborator failed.
C4_InternalErrorIs500 ==
    \A r \in Reqs :
        raised[r] \in PreLogErrors =>
            /\ pc[r] = "done"
            /\ response[r] = [status |-> 500, keys |-> {"detail"},
                              detail |-> raised[r], results |-> <<>>]

\* Shaping raised after part of the output had been built.
C4_Witness ==
    \E r \in Reqs :
        /\ raised[r] = ShapingError
        /\ output[r] # <<>>
        /\ response[r].status = 500

\* C5: a failure while emitting the log entry does not abort the request:
\* once embedding, query and shaping have succeeded, the answer is the
\* shaped results with a success status.
C5_LoggingFailureNotSurfaced ==
    \A r \in Reqs :
        (pc[r] = "done" /\ sink[r] # "unused") =>
            response[r] = SuccessResponse(output[r])

\* A body that conforms to SearchRequest as the data model describes it:
\* query a non-empty string, top_k a positive integer when given.
DescribedConforms(b) ==
    /\ Conforms(b)
    /\ b.query.text # ""
    /\ b.top_k.kind \in {"absent", "int"}
    /\ b.top_k.kind = "int" => b.top_k.n >= 1

\* C6: every request for which the embedding client or the vector index is
\* called has a non-empty query and an integer top_k >= 1, any other body
\* having been rejected with a 4xx before the search ran.
C6_OnlyValidRequestsReachCollaborators ==
    \A r \in Reqs :
        /\ (embedCalls[r] # <<>> \/ indexCalls[r] # <<>>) =>
              DescribedConforms(body[r])
        /\ (pc[r] = "done" /\ ~DescribedConforms(body[r])) =>
              response[r].status = 422

\* C7: GET /healthz always answers {"ok": true} with HTTP 200, and answering
\* calls neither the embedding client nor the vector index.
C7_HealthzAlwaysOk ==
    /\ [](health # NoHealth => health = [status |-> 200, ok |-> TRUE])
    /\ [][health' # health => UNCHANGED <<embedCalls, indexCalls>>]_vars

\* The probe answered ok although a search has failed on the index.
C7_Witness ==
    /\ health = [status |-> 200, ok |-> TRUE]
    /\ \E r \in Reqs : raised[r] \in IndexErrors /\ response[r].status = 500

EntriesBy(r) == {i \in 1 .. Len(log) : log[i].by = r}

\* C8 as stated: every search transaction appends exactly one log entry.
C8_OneEntryPerTransaction ==
    \A r \in Reqs :
        (pc[r] = "done" /\ Conforms(body[r])) => Cardinality(EntriesBy(r)) = 1

\* C8 amended: a search answered successfully appends exactly one entry
\* (none when the sink fails to write it), holding its query, its filters as
\* received and the raw index answer; a search answered with an error
\* appends none; entries in the log are never changed or removed.
C8_SuccessfulSearchLoggedOnce ==
    /\ [](\A r \in Reqs :
            /\ Cardinality(EntriesBy(r)) <= 1
            /\ (response[r].status = 200 /\ sink[r] # "dropped") =>
                  Cardinality(EntriesBy(r)) = 1
            /\ (pc[r] = "done" /\ response[r].status # 200) => EntriesBy(r) = {}
            /\ \A i \in EntriesBy(r) :
                  /\ log[i].query = body[r].query.text
                  /\ log[i].filters.isNone = (body[r].filters.kind = "absent")
                  /\ log[i].filters.items = body[r].filters.items
                  /\ log[i].top_results = results[r]
                  /\ Len(indexCalls[r]) = 1)
    /\ [][Len(log') >= Len(log) /\ SubSeq(log', 1, Len(log)) = log]_vars

\* Two requests have each appended their entry, one after the other.
C8_Witness ==
    /\ Len(log) = 2
    /\ log[1].by # log[2].by
    /\ log[1].query # log[2].query

\* C9: within one request the embedding client and the index are each
\* called at most once, the index only after the embedding call succeeded;
\* a failed call is not retried and ends the request with the error answer.
C9_OneCallEachNoRetry ==
    \A r \in Reqs :
        /\ Len(embedCalls[r]) <= 1
        /\ Len(indexCalls[r]) <= 1
        /\ Len(indexCalls[r]) = 1 =>
              /\ Len(embedCalls[r]) = 1
              /\ raised[r] \notin EmbeddingErrors
              /\ indexCalls[r][1].query_embeddings
                     = <<Embedding(embedCalls[r][1])>>
        /\ raised[r] \in EmbeddingErrors =>
              /\ indexCalls[r] = <<>>
              /\ pc[r] = "done"
              /\ response[r].status = 500
        /\ raised[r] \in IndexErrors \cup {NResultsError} =>
              /\ pc[r] = "done"
              /\ response[r].status = 500

\* The embedding call failed and the request is over.
C9_Witness ==
    \E r \in Reqs :
        /\ raised[r] \in EmbeddingErrors
        /\ Len(embedCalls[r]) = 1
        /\ indexCalls[r] = <<>>
        /\ pc[r] = "done"

\* The response of a request handled alone, from its body and the outcomes
\* of its collaborators, against the original contents of the index.
SoloResponse(b, err) ==
    IF ~Conforms(b) THEN RequestValidationError
    ELSE IF err # NoError
    THEN [status |-> 500, keys |-> {"detail"}, detail |-> err, results |-> <<>>]
    ELSE LET req == SearchRequest(b)
             res == QueryResult(Docs, Embedding(req.query), req.top_k,
                                where_clause(req.filters))
         IN  [status |-> 200, keys |-> {"results"}, detail |-> "",
              results |-> [i \in 1 .. Len(res.documents[1]) |->
                              SearchResultItem(res, i)]]

\* C10: under any interleaving each finished request has the response it
\* would get alone, each log entry holds its own request's query, filters
\* and index answer, and no search request changes the index.
C10_RequestsAreIsolated ==
    /\ [](\A r \in Reqs :
            /\ pc[r] = "done" => response[r] = SoloResponse(body[r], raised[r])
            /\ \A i \in EntriesBy(r) :
                  /\ log[i].query = request[r].query
                  /\ log[i].filters = request[r].filters
                  /\ log[i].top_results =
                        QueryResult(Docs, Embedding(request[r].query),
                                    request[r].top_k,
                                    where_clause(request[r].filters)))
    /\ [][collection' = collection]_vars

\* One request has been answered while another, with a different index
\* answer, is still between its index query and its response.
C10_Witness ==
    \E r1 \in Reqs, r2 \in Reqs :
        /\ pc[r1] = "done" /\ response[r1].status = 200
        /\ pc[r2] \in {"format", "log"}
        /\ results[r1] # results[r2]
        /\ log # <<>> /\ log[1].by = r1

====
